---- MODULE Spec2Model ----
(***************************************************************************)
(* Model of product_demos/DBSQL-Datawarehousing/lakehouse-monitor/          *)
(* 01-Timeseries-monitor.py: a notebook that creates a quality monitor,     *)
(* waits for it to become active, waits for its initial refresh, reads the  *)
(* metrics tables, submits six custom metrics with an update call, requests *)
(* a refresh and waits for it, then queries the custom metrics.             *)
(*                                                                          *)
(* The notebook is one sequential program; pc is its position.  The         *)
(* monitoring service is the environment: its monitor status, its refresh   *)
(* runs and the monitor's metric definitions are state the program only     *)
(* reads through API calls.  trace is a history variable: the calls and     *)
(* sleeps the program has made, in order.                                   *)
(***************************************************************************)
EXTENDS Integers, Sequences, FiniteSets, TLC

VARIABLES
    pc,             \* position of the notebook
    err,            \* why the run stopped, "none" while it has not
    info,           \* info.status (line 129/131), "UNSET" before the first get
    refreshes,      \* the list returned by list_refreshes (line 136)
    run_info,       \* the run record being polled (lines 139/141/407/412)
    lhm_monitor,    \* whether the name lhm_monitor is bound (lines 101/380)
    trace,          \* history: the calls and sleeps made so far
    monStatus,      \* service: status of the monitor, "NONE" when there is none
    runs,           \* service: the monitor's refresh runs
    monMetrics,     \* service: the monitor's custom metric definitions
    batch,          \* a batch of metric definitions handed to validate
    verdict         \* what validate answered for batch

vars == <<pc, err, info, refreshes, run_info, lhm_monitor, trace,
          monStatus, runs, monMetrics, batch, verdict>>

progVars == <<pc, err, info, refreshes, run_info, lhm_monitor, trace>>
servVars == <<monStatus, runs, monMetrics>>
valVars == <<batch, verdict>>

(***************************************************************************)
(* Bounds of the model.                                                     *)
(***************************************************************************)
\* events kept in trace; later events are not recorded
MaxTrace == 15
\* longest batch handed to validate in ValSpec
MaxBatch == 3

(***************************************************************************)
(* Status enumerations imported on line 124.                                *)
(***************************************************************************)
\* MonitorInfoStatus: the notebook names PENDING and ACTIVE; every other
\* member fails the assertion on line 134.
MonitorInfoStatus ==
    {"MONITOR_STATUS_PENDING", "MONITOR_STATUS_ACTIVE", "MONITOR_STATUS_FAILED"}

\* MonitorRefreshInfoState: the notebook names PENDING, RUNNING and SUCCESS;
\* the SDK enumeration it imports also has FAILED and CANCELED.
MonitorRefreshInfoState == {"PENDING", "RUNNING", "SUCCESS", "FAILED", "CANCELED"}

(***************************************************************************)
(* The custom metric definitions (lines 275-369).  A MonitorMetric is kept  *)
(* as its type, its name, its input_columns, the metric names its           *)
(* definition expression mentions (refs) and whether the expression uses    *)
(* the {{input_column}} template (tmpl).                                    *)
(***************************************************************************)
AGGREGATE == "CUSTOM_METRIC_TYPE_AGGREGATE"
DERIVED == "CUSTOM_METRIC_TYPE_DERIVED"
DRIFT == "CUSTOM_METRIC_TYPE_DRIFT"

\* definition = "avg(Price*(1-Discount))"
avg_price_after_discount_agg ==
    [type |-> AGGREGATE, name |-> "avg_price_after_discount",
     input_columns |-> <<":table">>, refs |-> {}, tmpl |-> FALSE]

\* definition = "log(avg_price_after_discount)"
log_price_after_discount_derived ==
    [type |-> DERIVED, name |-> "log_price_after_discount",
     input_columns |-> <<":table">>, refs |-> {"avg_price_after_discount"},
     tmpl |-> FALSE]

\* definition = "var_samp(`{{input_column}}`)"
variance_metric_agg ==
    [type |-> AGGREGATE, name |-> "variance",
     input_columns |-> <<"TotalPurchaseAmount", "Discount">>, refs |-> {},
     tmpl |-> TRUE]

\* definition = "sqrt(variance)"
std_metric_derived ==
    [type |-> DERIVED, name |-> "std",
     input_columns |-> <<"TotalPurchaseAmount", "Discount">>,
     refs |-> {"variance"}, tmpl |-> FALSE]

\* definition = "100*({{current_df}}.std - {{base_df}}.std)/{{base_df}}.std"
std_delta_pct_drift ==
    [type |-> DRIFT, name |-> "std_delta_pct",
     input_columns |-> <<"TotalPurchaseAmount", "Discount">>,
     refs |-> {"std"}, tmpl |-> FALSE]

\* definition = "{{current_df}}.log_price_after_discount/{{base_df}}.log_price_after_discount"
log_price_after_discount_delta_drift ==
    [type |-> DRIFT, name |-> "log_price_after_discount_ratio",
     input_columns |-> <<":table">>, refs |-> {"log_price_after_discount"},
     tmpl |-> FALSE]

\* The list as written on lines 385-392 with the two definitions of the
\* standard deviation family exchanged (std before variance).
custom_metrics_std_first ==
    <<avg_price_after_discount_agg,
      log_price_after_discount_derived,
      log_price_after_discount_delta_drift,
      std_metric_derived,
      variance_metric_agg,
      std_delta_pct_drift>>

\* custom_metrics=[...] of the update call (lines 385-392)
custom_metrics ==
    <<avg_price_after_discount_agg,
      log_price_after_discount_derived,
      log_price_after_discount_delta_drift,
      variance_metric_agg,
      std_metric_derived,
      std_delta_pct_drift>>

(***************************************************************************)
(* The trace.                                                               *)
(***************************************************************************)
\* One recorded step: the operation, its argument and what it returned or
\* observed.  The argument is the refresh id of a get_refresh and the id of
\* the run a run_refresh returned, the number of metric definitions the
\* monitor held when update was called, and 0 otherwise.  A sleep records
\* its seconds.
Event(op, arg, res) == [op |-> op, arg |-> arg, res |-> res]

\* trace with one more event, unless MaxTrace events are already kept
Record(op, arg, res) ==
    IF Len(trace) < MaxTrace THEN Append(trace, Event(op, arg, res)) ELSE trace

\* every event of the run so far is in trace
Complete == Len(trace) < MaxTrace

UNSET == [refresh_id |-> 0, state |-> "UNSET"]

(***************************************************************************)
(* The monitoring service (the environment of the notebook).                *)
(***************************************************************************)
\* A metric definition a monitor may hold from an earlier configuration.
earlier_metric ==
    [type |-> AGGREGATE, name |-> "max_discount",
     input_columns |-> <<"Discount">>, refs |-> {}, tmpl |-> TRUE]

\* What a monitor that exists before the notebook runs may hold.
EarlierMetrics == {<< >>, <<earlier_metric, variance_metric_agg>>, custom_metrics}

\* The refresh runs a monitor that exists before the notebook runs may have.
EarlierRuns ==
    {<<[refresh_id |-> 1, state |-> "SUCCESS"]>>,
     <<[refresh_id |-> 1, state |-> "RUNNING"],
       [refresh_id |-> 2, state |-> "SUCCESS"]>>}

\* The state of the handle run_refresh returns.
NewRunStates == {"PENDING", "RUNNING"}

\* update with merge semantics: the definitions held are kept, the new ones added
ServiceUpdateMerge(held, definitions) == held \o definitions

\* update: the definitions given replace the ones the monitor holds
ServiceUpdate(held, definitions) == definitions

\* The monitor leaves PENDING.
ServiceMonitorStep ==
    /\ monStatus = "MONITOR_STATUS_PENDING"
    /\ monStatus' \in {"MONITOR_STATUS_ACTIVE", "MONITOR_STATUS_FAILED"}
    /\ UNCHANGED <<runs, monMetrics>>
    /\ UNCHANGED progVars
    /\ UNCHANGED valVars

\* The service schedules the initial refresh of a new monitor.
ServiceInitialRefresh ==
    /\ monStatus # "NONE"
    /\ runs = << >>
    /\ runs' = <<[refresh_id |-> 1, state |-> "PENDING"]>>
    /\ UNCHANGED <<monStatus, monMetrics>>
    /\ UNCHANGED progVars
    /\ UNCHANGED valVars

\* A refresh run advances; a run in a final state never changes.
ServiceRunStep ==
    /\ \E i \in 1..Len(runs) :
          \/ /\ runs[i].state = "PENDING"
             /\ \E s \in {"RUNNING", "CANCELED"} :
                   runs' = [runs EXCEPT ![i].state = s]
          \/ /\ runs[i].state = "RUNNING"
             /\ \E s \in {"SUCCESS", "FAILED", "CANCELED"} :
                   runs' = [runs EXCEPT ![i].state = s]
    /\ UNCHANGED <<monStatus, monMetrics>>
    /\ UNCHANGED progVars
    /\ UNCHANGED valVars

(***************************************************************************)
(* The notebook.                                                            *)
(***************************************************************************)
\* An uncaught exception or a failed assertion ends the run.
Stop(why) ==
    /\ pc' = "error"
    /\ err' = why

\* lines 100-112: quality_monitors.create inside try/except; the handler
\* prints the exception and the notebook goes on.
Create ==
    /\ pc = "create"
    /\ \/ /\ monStatus = "NONE"
          /\ monStatus' = "MONITOR_STATUS_PENDING"
          /\ lhm_monitor' = TRUE
          /\ trace' = Record("create", 0, "ok")
       \/ /\ UNCHANGED <<monStatus, lhm_monitor>>
          /\ trace' = Record("create", 0, "raised")
    /\ pc' = "a_get0"
    /\ UNCHANGED <<err, info, refreshes, run_info, runs, monMetrics>>
    /\ UNCHANGED valVars

\* line 129: the first quality_monitors.get; it raises when there is no monitor
GetFirst ==
    /\ pc = "a_get0"
    /\ IF monStatus = "NONE"
          THEN /\ Stop("get_raised")
               /\ trace' = Record("get", 0, "raised")
               /\ UNCHANGED info
          ELSE /\ info' = monStatus
               /\ trace' = Record("get", 0, monStatus)
               /\ pc' = "a_while"
               /\ UNCHANGED err
    /\ UNCHANGED <<refreshes, run_info, lhm_monitor>>
    /\ UNCHANGED servVars
    /\ UNCHANGED valVars

\* line 130: info.status == MonitorInfoStatus.MONITOR_STATUS_PENDING
StatusPending(status) == status = "MONITOR_STATUS_PENDING"

\* line 130: the while test of the activation loop
WhileActive ==
    /\ pc = "a_while"
    /\ pc' = IF StatusPending(info) THEN "a_get" ELSE "a_assert"
    /\ UNCHANGED <<err, info, refreshes, run_info, lhm_monitor, trace>>
    /\ UNCHANGED servVars
    /\ UNCHANGED valVars

\* line 131: quality_monitors.get inside the loop
GetActive ==
    /\ pc = "a_get"
    /\ info' = monStatus
    /\ trace' = Record("get", 0, monStatus)
    /\ pc' = "a_sleep"
    /\ UNCHANGED <<err, refreshes, run_info, lhm_monitor>>
    /\ UNCHANGED servVars
    /\ UNCHANGED valVars

\* line 132: time.sleep(10)
SleepActive ==
    /\ pc = "a_sleep"
    /\ trace' = Record("sleep", 0, "10")
    /\ pc' = "a_while"
    /\ UNCHANGED <<err, info, refreshes, run_info, lhm_monitor>>
    /\ UNCHANGED servVars
    /\ UNCHANGED valVars

\* line 134 without the assertion: the notebook goes on whatever the status
AssertActiveSkipped ==
    /\ pc = "a_assert"
    /\ pc' = "list"
    /\ UNCHANGED <<err, info, refreshes, run_info, lhm_monitor, trace>>
    /\ UNCHANGED servVars
    /\ UNCHANGED valVars

\* line 134: assert info.status == MONITOR_STATUS_ACTIVE, "Error creating monitor"
AssertActive ==
    /\ pc = "a_assert"
    /\ IF info = "MONITOR_STATUS_ACTIVE"
          THEN pc' = "list" /\ UNCHANGED err
          ELSE Stop("Error creating monitor")
    /\ UNCHANGED <<info, refreshes, run_info, lhm_monitor, trace>>
    /\ UNCHANGED servVars
    /\ UNCHANGED valVars

\* line 136: refreshes = quality_monitors.list_refreshes(...).refreshes
ListRefreshes ==
    /\ pc = "list"
    /\ refreshes' = runs
    /\ trace' = Record("list_refreshes", 0,
                       IF runs = << >> THEN "EMPTY" ELSE runs[1].state)
    /\ pc' = "list_assert"
    /\ UNCHANGED <<err, info, run_info, lhm_monitor>>
    /\ UNCHANGED servVars
    /\ UNCHANGED valVars

\* lines 137-139 with the last listed run taken instead of the first
AssertRefreshesLast ==
    /\ pc = "list_assert"
    /\ IF Len(refreshes) > 0
          THEN /\ run_info' = refreshes[Len(refreshes)]
               /\ pc' = "r1_while"
               /\ UNCHANGED err
          ELSE /\ Stop("no refreshes")
               /\ UNCHANGED run_info
    /\ UNCHANGED <<info, refreshes, lhm_monitor, trace>>
    /\ UNCHANGED servVars
    /\ UNCHANGED valVars

\* lines 137-139: assert(len(refreshes) > 0); run_info = refreshes[0]
AssertRefreshes ==
    /\ pc = "list_assert"
    /\ IF Len(refreshes) > 0
          THEN /\ run_info' = refreshes[1]
               /\ pc' = "r1_while"
               /\ UNCHANGED err
          ELSE /\ Stop("no refreshes")
               /\ UNCHANGED run_info
    /\ UNCHANGED <<info, refreshes, lhm_monitor, trace>>
    /\ UNCHANGED servVars
    /\ UNCHANGED valVars

\* lines 140/411 with PENDING left out of the tuple
RefreshInProgressRunningOnly(state) == state = "RUNNING"

\* lines 140/411: run_info.state in (PENDING, RUNNING)
RefreshInProgress(state) == state \in {"PENDING", "RUNNING"}

\* the positions of the two refresh poll loops
WhilePcs == {"r1_while", "r2_while"}
GetPcs == {"r1_get", "r2_get"}
SleepPcs == {"r1_sleep", "r2_sleep"}
AssertPcs == {"r1_assert", "r2_assert"}
Loop(p) == IF p \in {"r1_while", "r1_get", "r1_sleep", "r1_assert"} THEN "r1" ELSE "r2"
At(loop, step) ==
    IF loop = "r1"
       THEN CASE step = "while" -> "r1_while" [] step = "get" -> "r1_get"
              [] step = "sleep" -> "r1_sleep" [] OTHER -> "r1_assert"
       ELSE CASE step = "while" -> "r2_while" [] step = "get" -> "r2_get"
              [] step = "sleep" -> "r2_sleep" [] OTHER -> "r2_assert"

\* lines 140 and 411: the while test of a refresh poll loop
WhileRefresh ==
    /\ pc \in WhilePcs
    /\ pc' = IF RefreshInProgress(run_info.state)
                THEN At(Loop(pc), "get") ELSE At(Loop(pc), "assert")
    /\ UNCHANGED <<err, info, refreshes, run_info, lhm_monitor, trace>>
    /\ UNCHANGED servVars
    /\ UNCHANGED valVars

\* lines 141 and 412 with the result of get_refresh not assigned to run_info
GetRefreshNotAssigned ==
    /\ pc \in GetPcs
    /\ trace' = Record("get_refresh", run_info.refresh_id,
                       runs[run_info.refresh_id].state)
    /\ pc' = At(Loop(pc), "sleep")
    /\ UNCHANGED <<err, info, refreshes, run_info, lhm_monitor>>
    /\ UNCHANGED servVars
    /\ UNCHANGED valVars

\* lines 141 and 412: run_info = quality_monitors.get_refresh(refresh_id=run_info.refresh_id)
GetRefresh ==
    /\ pc \in GetPcs
    /\ run_info' = [refresh_id |-> run_info.refresh_id,
                    state |-> runs[run_info.refresh_id].state]
    /\ trace' = Record("get_refresh", run_info.refresh_id,
                       runs[run_info.refresh_id].state)
    /\ pc' = At(Loop(pc), "sleep")
    /\ UNCHANGED <<err, info, refreshes, lhm_monitor>>
    /\ UNCHANGED servVars
    /\ UNCHANGED valVars

\* lines 142 and 413: time.sleep(30)
SleepRefresh ==
    /\ pc \in SleepPcs
    /\ trace' = Record("sleep", 0, "30")
    /\ pc' = At(Loop(pc), "while")
    /\ UNCHANGED <<err, info, refreshes, run_info, lhm_monitor>>
    /\ UNCHANGED servVars
    /\ UNCHANGED valVars

\* lines 144/415 without the assertion: the notebook goes on whatever the state
AssertRefreshSkipped ==
    /\ pc \in AssertPcs
    /\ pc' = IF pc = "r1_assert" THEN "profile" ELSE "q1"
    /\ UNCHANGED <<err, info, refreshes, run_info, lhm_monitor, trace>>
    /\ UNCHANGED servVars
    /\ UNCHANGED valVars

\* lines 144 and 415: assert run_info.state == SUCCESS, "Monitor refresh failed"
AssertRefresh ==
    /\ pc \in AssertPcs
    /\ IF run_info.state = "SUCCESS"
          THEN pc' = (IF pc = "r1_assert" THEN "profile" ELSE "q1") /\ UNCHANGED err
          ELSE Stop("Monitor refresh failed")
    /\ UNCHANGED <<info, refreshes, run_info, lhm_monitor, trace>>
    /\ UNCHANGED servVars
    /\ UNCHANGED valVars

\* lines 162-163: profile_table = lhm_monitor.profile_metrics_table_name, then
\* the first read of the profile table; the name lhm_monitor is bound only by
\* a create or an update that returned
DisplayProfile ==
    /\ pc = "profile"
    /\ IF lhm_monitor
          THEN /\ trace' = Record("sql", 0, "profile")
               /\ pc' = "drift"
               /\ UNCHANGED err
          ELSE /\ Stop("NameError")
               /\ UNCHANGED trace
    /\ UNCHANGED <<info, refreshes, run_info, lhm_monitor>>
    /\ UNCHANGED servVars
    /\ UNCHANGED valVars

\* the cells that only read a metrics table, and the cell after each
SqlPcs == {"drift", "profile_col", "drift_col", "q1", "q2", "q3", "q4"}
SqlTable(p) == IF p \in {"drift", "drift_col", "q3", "q4"} THEN "drift" ELSE "profile"
SqlNext(p) ==
    CASE p = "drift" -> "profile_col"
      [] p = "profile_col" -> "drift_col"
      [] p = "drift_col" -> "update"
      [] p = "q1" -> "q2"
      [] p = "q2" -> "q3"
      [] p = "q3" -> "q4"
      [] OTHER -> "done"

\* lines 180-181, 190, 199 and 431, 441, 451, 455: display(spark.sql(...))
DisplaySql ==
    /\ pc \in SqlPcs
    /\ trace' = Record("sql", 0, SqlTable(pc))
    /\ pc' = SqlNext(pc)
    /\ UNCHANGED <<err, info, refreshes, run_info, lhm_monitor>>
    /\ UNCHANGED servVars
    /\ UNCHANGED valVars

\* lines 379-397 with an update that also starts a refresh run
UpdateStartsRefresh ==
    /\ pc = "update"
    /\ monMetrics' = ServiceUpdate(monMetrics, custom_metrics)
    /\ runs' = Append(runs, [refresh_id |-> Len(runs) + 1, state |-> "PENDING"])
    /\ lhm_monitor' = TRUE
    /\ trace' = Record("update", Len(monMetrics), "ok")
    /\ batch' = custom_metrics
    /\ pc' = "run_refresh"
    /\ UNCHANGED <<err, info, refreshes, run_info, monStatus, verdict>>

\* lines 379-397: quality_monitors.update with the six custom metrics inside
\* try/except; the handler prints the exception and the notebook goes on.
\* Line 402: updating the monitor does not cause it to be refreshed.
Update ==
    /\ pc = "update"
    /\ \/ /\ monMetrics' = ServiceUpdate(monMetrics, custom_metrics)
          /\ lhm_monitor' = TRUE
          /\ trace' = Record("update", Len(monMetrics), "ok")
       \/ /\ UNCHANGED <<monMetrics, lhm_monitor>>
          /\ trace' = Record("update", Len(monMetrics), "raised")
    /\ batch' = custom_metrics
    /\ pc' = "run_refresh"
    /\ UNCHANGED <<err, info, refreshes, run_info, monStatus, runs, verdict>>

\* lines 407-409: run_info = quality_monitors.run_refresh(...); w = WorkspaceClient()
RunRefresh ==
    /\ pc = "run_refresh"
    /\ \E s \in NewRunStates :
          LET new == [refresh_id |-> Len(runs) + 1, state |-> s] IN
          /\ runs' = Append(runs, new)
          /\ run_info' = new
          /\ trace' = Record("run_refresh", new.refresh_id, s)
    /\ pc' = "r2_while"
    /\ UNCHANGED <<err, info, refreshes, lhm_monitor, monStatus, monMetrics>>
    /\ UNCHANGED valVars

Program ==
    \/ Create
    \/ GetFirst
    \/ WhileActive
    \/ GetActive
    \/ SleepActive
    \/ AssertActive
    \/ ListRefreshes
    \/ AssertRefreshes
    \/ WhileRefresh
    \/ GetRefresh
    \/ SleepRefresh
    \/ AssertRefresh
    \/ DisplayProfile
    \/ DisplaySql
    \/ Update
    \/ RunRefresh

Service ==
    \/ ServiceMonitorStep
    \/ ServiceInitialRefresh
    \/ ServiceRunStep

\* Before the create cell.  Either there is no monitor yet, or one exists
\* from an earlier run (create then raises); in that case the name
\* lhm_monitor may still be bound in the notebook session.
Init ==
    /\ pc = "create"
    /\ err = "none"
    /\ info = "UNSET"
    /\ refreshes = << >>
    /\ run_info = UNSET
    /\ trace = << >>
    /\ \/ /\ monStatus = "NONE"
          /\ runs = << >>
          /\ monMetrics = << >>
          /\ lhm_monitor = FALSE
       \/ /\ monStatus = "MONITOR_STATUS_ACTIVE"
          /\ runs \in EarlierRuns
          /\ monMetrics \in EarlierMetrics
          /\ lhm_monitor \in BOOLEAN
    /\ batch = << >>
    /\ verdict = "none"

Next ==
    \/ Program
    \/ Service

Spec == Init /\ [][Next]_vars

(***************************************************************************)
(* validate of the metric expression registry (spec 4.2): names are unique  *)
(* within the batch, a DERIVED or DRIFT definition mentions only names      *)
(* defined earlier in the batch or built-in metrics, and only an AGGREGATE  *)
(* definition uses the input-column template.                               *)
(***************************************************************************)
\* line 321: stddev is already included in the default metrics
BuiltinMetrics == {"stddev"}

RECURSIVE ValidateFrom(_, _, _)
ValidateFrom(definitions, i, seen) ==
    IF i > Len(definitions) THEN "ok"
    ELSE LET d == definitions[i] IN
         IF d.name \in seen THEN "naming_conflict"
         ELSE IF d.type # AGGREGATE /\ d.tmpl THEN "template_misuse"
         ELSE IF d.type # AGGREGATE /\ ~(d.refs \subseteq (seen \cup BuiltinMetrics))
              THEN "unresolved_reference"
         ELSE ValidateFrom(definitions, i + 1, seen \cup {d.name})

validate(definitions) == ValidateFrom(definitions, 1, {})

\* a derived standard deviation computed from the built-in stddev
std_builtin_derived ==
    [type |-> DERIVED, name |-> "std",
     input_columns |-> <<"TotalPurchaseAmount", "Discount">>,
     refs |-> {"stddev"}, tmpl |-> FALSE]

\* a derived metric whose expression uses the input-column template
std_template_derived ==
    [type |-> DERIVED, name |-> "std_of_column",
     input_columns |-> <<"TotalPurchaseAmount", "Discount">>,
     refs |-> {"variance"}, tmpl |-> TRUE]

\* the definitions the batches of ValSpec are made of
MetricUniverse ==
    {variance_metric_agg, std_metric_derived, std_delta_pct_drift,
     avg_price_after_discount_agg, log_price_after_discount_derived,
     std_builtin_derived, std_template_derived}

SeqsUpTo(S, n) == UNION {[1..k -> S] : k \in 0..n}

Batches == SeqsUpTo(MetricUniverse, MaxBatch) \cup {custom_metrics}

\* validate is applied to the batch
Validate ==
    /\ pc = "validate"
    /\ verdict' = validate(batch)
    /\ pc' = "validated"
    /\ UNCHANGED <<err, info, refreshes, run_info, lhm_monitor, trace, batch>>
    /\ UNCHANGED servVars

ValInit ==
    /\ pc = "validate"
    /\ err = "none"
    /\ info = "UNSET"
    /\ refreshes = << >>
    /\ run_info = UNSET
    /\ lhm_monitor = FALSE
    /\ trace = << >>
    /\ monStatus = "NONE"
    /\ runs = << >>
    /\ monMetrics = << >>
    /\ batch \in Batches
    /\ verdict = "none"

ValNext == Validate

ValSpec == ValInit /\ [][ValNext]_vars

\* The notebook is a sequential script: while it has a next step, it takes it.
\* Nothing obliges the service to advance.
FairSpec == Spec /\ WF_vars(Program)

(***************************************************************************)
(* Reading the trace.                                                       *)
(***************************************************************************)
ActPcs == {"create", "a_get0", "a_while", "a_get", "a_sleep", "a_assert"}
RefreshPcs == WhilePcs \cup GetPcs \cup SleepPcs \cup AssertPcs

IsActEvent(e) == e.op = "get" \/ (e.op = "sleep" /\ e.res = "10")
IsGet(e) == e.op = "get"
IsActSleep(e) == e.op = "sleep" /\ e.res = "10"

\* the fetches and sleeps of the wait-for-active step, in order
ActEvents == SelectSeq(trace, IsActEvent)
NFetches == Len(SelectSeq(trace, IsGet))
NSleeps == Len(SelectSeq(trace, IsActSleep))

\* the wait-for-active step has returned: the assertion of line 134 passed
ActReturned == info = "MONITOR_STATUS_ACTIVE" /\ pc \notin ActPcs

\* event i observed a refresh run in state st
Observed(i, st) ==
    /\ trace[i].op \in {"list_refreshes", "get_refresh", "run_refresh"}
    /\ trace[i].res = st

Last == trace[Len(trace)]

(***************************************************************************)
(* C1.  When the monitor is PENDING on the first N-1 fetches and ACTIVE on  *)
(* the N-th, the wait-for-active step returns after exactly N fetches and   *)
(* N-1 sleeps, and the sleeps lie between consecutive fetches: the events   *)
(* are fetch, sleep, fetch, ..., sleep, fetch.                              *)
(***************************************************************************)
C1_SleepsBetweenFetches ==
    (ActReturned /\ Complete) =>
        /\ NSleeps = NFetches - 1
        /\ Len(ActEvents) = 2 * NFetches - 1
        /\ \A k \in 1..Len(ActEvents) :
              ActEvents[k].op = (IF k % 2 = 1 THEN "get" ELSE "sleep")

(***************************************************************************)
(* C2.  When the monitor goes from PENDING to FAILED, the wait-for-active   *)
(* step stops with its error right at the fetch that observed FAILED:       *)
(* nothing, no fetch and no sleep, lies between that fetch and the error.   *)
(***************************************************************************)
C2_FailsAtTheFetch ==
    (/\ pc = "error"
     /\ err = "Error creating monitor"
     /\ info = "MONITOR_STATUS_FAILED"
     /\ Complete
     /\ NFetches >= 2) =>
        (Last.op = "get" /\ Last.res = "MONITOR_STATUS_FAILED")

(***************************************************************************)
(* C3.  A refresh poll loop that reads RUNNING does not go on reading       *)
(* RUNNING for ever: it is left (with a timeout) after a bounded number of  *)
(* polls, in the first loop and in the second.                              *)
(***************************************************************************)
C3_RunningLoopEnds ==
    (pc \in RefreshPcs /\ run_info.state = "RUNNING")
        ~> (pc \notin RefreshPcs \/ run_info.state # "RUNNING")

(***************************************************************************)
(* C4 as claimed.  A refresh poll loop stops exactly on SUCCESS and FAILED: *)
(* it is left only with one of these two states as the last one fetched,    *)
(* and polls again only with another state.                                 *)
(***************************************************************************)
C4_StopsOnSuccessOrFailed ==
    /\ pc \in AssertPcs => run_info.state \in {"SUCCESS", "FAILED"}
    /\ pc \in GetPcs => run_info.state \notin {"SUCCESS", "FAILED"}

(***************************************************************************)
(* C4 as amended.  A refresh poll loop polls again exactly when the last    *)
(* state fetched is PENDING or RUNNING; it is left on every other state,    *)
(* CANCELED included.                                                       *)
(***************************************************************************)
C4_PollsWhilePendingOrRunning ==
    /\ pc \in AssertPcs => run_info.state \in MonitorRefreshInfoState \ {"PENDING", "RUNNING"}
    /\ pc \in GetPcs => run_info.state \in {"PENDING", "RUNNING"}

\* a loop was left on a fetched CANCELED
C4_Witness ==
    /\ pc \in AssertPcs
    /\ run_info.state = "CANCELED"
    /\ trace # << >>
    /\ Last.op = "sleep"
    /\ Len(trace) >= 2
    /\ trace[Len(trace) - 1].op = "get_refresh"
    /\ trace[Len(trace) - 1].res = "CANCELED"

(***************************************************************************)
(* C5.  A create or update call that fails ends the run there: it is the    *)
(* last step made, and the run is in its error state.                       *)
(***************************************************************************)
C5_FailureEndsRun ==
    \A i \in 1..Len(trace) :
        (trace[i].op \in {"create", "update"} /\ trace[i].res = "raised") =>
            (i = Len(trace) /\ pc = "error")

(***************************************************************************)
(* C6.  Once a refresh run was observed FAILED, the notebook makes no       *)
(* further get_refresh, no run_refresh and no read of a metrics table (the  *)
(* sleep of the loop is all that follows), and the run ends in the error    *)
(* "Monitor refresh failed".                                                *)
(***************************************************************************)
C6_FailedRefreshEndsRun ==
    /\ \A i \in 1..Len(trace) : \A j \in 1..Len(trace) :
          (i < j /\ Observed(i, "FAILED")) => trace[j].op = "sleep"
    /\ run_info.state = "FAILED" =>
          /\ pc \in WhilePcs \cup SleepPcs \cup AssertPcs \cup {"error"}
          /\ pc = "error" => err = "Monitor refresh failed"

\* a run that ended on a get_refresh that returned FAILED
C6_Witness ==
    /\ pc = "error"
    /\ err = "Monitor refresh failed"
    /\ run_info.state = "FAILED"
    /\ \E i \in 1..Len(trace) : trace[i].op = "get_refresh" /\ trace[i].res = "FAILED"

(***************************************************************************)
(* Reading a batch of metric definitions.                                   *)
(***************************************************************************)
\* every name a DERIVED or DRIFT definition mentions is defined strictly
\* earlier in the batch or is a built-in metric
RefsEarlier(b) ==
    \A j \in 1..Len(b) :
        b[j].type \in {DERIVED, DRIFT} =>
            \A r \in b[j].refs :
                r \in BuiltinMetrics \/ \E i \in 1..(j - 1) : b[i].name = r

UniqueNames(b) ==
    \A i \in 1..Len(b) : \A j \in 1..Len(b) : i # j => b[i].name # b[j].name

TemplateOnlyAggregate(b) ==
    \A i \in 1..Len(b) : b[i].tmpl => b[i].type = AGGREGATE

Layer(type) == CASE type = AGGREGATE -> 1 [] type = DERIVED -> 2 [] OTHER -> 3

(***************************************************************************)
(* C7 as claimed.  validate accepts a batch if and only if every name a     *)
(* DERIVED or DRIFT definition mentions is defined strictly earlier in the  *)
(* batch or is built in.                                                    *)
(***************************************************************************)
C7_AcceptsIffRefsEarlier ==
    verdict # "none" => (verdict = "ok" <=> RefsEarlier(batch))

(***************************************************************************)
(* C7 as amended.  For a batch whose names are pairwise distinct and in     *)
(* which only AGGREGATE definitions use the input-column template,          *)
(* validate accepts if and only if every name a DERIVED or DRIFT definition *)
(* mentions is defined strictly earlier or is built in; variance then std   *)
(* is accepted, std then variance is rejected, and the six definitions of   *)
(* the update call are accepted.                                            *)
(***************************************************************************)
C7_AcceptsWellFormedIffRefsEarlier ==
    verdict # "none" =>
        /\ (UniqueNames(batch) /\ TemplateOnlyAggregate(batch)) =>
              (verdict = "ok" <=> RefsEarlier(batch))
        /\ batch = <<variance_metric_agg, std_metric_derived>> => verdict = "ok"
        /\ batch = <<std_metric_derived, variance_metric_agg>> =>
              verdict = "unresolved_reference"
        /\ batch = custom_metrics => verdict = "ok"

\* validate has answered for the six definitions of the update call
C7_Witness ==
    /\ batch = custom_metrics
    /\ Len(batch) = 6
    /\ verdict = "ok"

C9_OrderedByLayer ==
    \A i \in 1..Len(batch) : \A j \in 1..Len(batch) :
        i < j => Layer(batch[i].type) <= Layer(batch[j].type)

(***************************************************************************)
(* C9 as amended.  The list is ordered by layer along each chain of         *)
(* references: every name a definition mentions is defined earlier in the   *)
(* list, by a definition of a lower layer.                                  *)
(***************************************************************************)
C9_OrderedAlongReferences ==
    \A j \in 1..Len(batch) : \A r \in batch[j].refs :
        \E i \in 1..(j - 1) :
            batch[i].name = r /\ Layer(batch[i].type) < Layer(batch[j].type)

\* the update call has submitted its list
C9_Witness ==
    /\ pc = "run_refresh"
    /\ Len(batch) = 6
    /\ \E i \in 1..Len(trace) : trace[i].op = "update"

(***************************************************************************)
(* C10.  The update call leaves the refresh runs as they are; after the     *)
(* initial refresh a run is added only by run_refresh, whose handle is      *)
(* PENDING or RUNNING; run_refresh comes after the update call, and every   *)
(* get_refresh after the update polls the run that run_refresh returned.    *)
(***************************************************************************)
C10_RefreshOnlyOnRequest ==
    /\ [][(pc = "update" /\ pc' = "run_refresh") => runs' = runs]_vars
    /\ [][(Len(runs') > Len(runs)) => (pc = "run_refresh" \/ runs = << >>)]_vars
    /\ [](\A j \in 1..Len(trace) :
             trace[j].op = "run_refresh" =>
                 /\ trace[j].res \in {"PENDING", "RUNNING"}
                 /\ \E i \in 1..(j - 1) : trace[i].op = "update")
    /\ [](\A k \in 1..Len(trace) :
             (trace[k].op = "get_refresh"
                 /\ \E u \in 1..(k - 1) : trace[u].op = "update") =>
                 \E j \in 1..(k - 1) :
                     trace[j].op = "run_refresh" /\ trace[j].arg = trace[k].arg)

\* update, then run_refresh, then a poll of the run it returned
C10_Witness ==
    \E i \in 1..Len(trace) : \E j \in 1..Len(trace) : \E k \in 1..Len(trace) :
        /\ i < j /\ j < k
        /\ trace[i].op = "update"
        /\ trace[j].op = "run_refresh"
        /\ trace[k].op = "get_refresh"
        /\ trace[k].arg = trace[j].arg

(***************************************************************************)
(* The notebook run against a service that makes progress: a monitor that   *)
(* is PENDING eventually leaves PENDING, and a refresh run that is PENDING  *)
(* or RUNNING eventually advances.                                          *)
(***************************************************************************)
LiveSpec ==
    /\ Spec
    /\ WF_vars(Program)
    /\ WF_vars(ServiceMonitorStep)
    /\ WF_vars(ServiceRunStep)

\* the run is over: every cell ran, or an exception or assertion stopped it
Terminated == pc \in {"done", "error"}

(***************************************************************************)
(* C11.  The steps come in a fixed order: list_refreshes and get_refresh    *)
(* only after a get that observed ACTIVE; a read of a metrics table only    *)
(* after the followed refresh was observed SUCCESS; and a read that comes   *)
(* after run_refresh (the custom-metric queries) only after a get_refresh   *)
(* of the run it returned observed SUCCESS.                                 *)
(***************************************************************************)
C11_FixedOrder ==
    /\ \A k \in 1..Len(trace) :
          trace[k].op \in {"list_refreshes", "get_refresh"} =>
              \E i \in 1..(k - 1) :
                  trace[i].op = "get" /\ trace[i].res = "MONITOR_STATUS_ACTIVE"
    /\ \A k \in 1..Len(trace) :
          trace[k].op = "sql" =>
              \E i \in 1..(k - 1) :
                  /\ trace[i].op \in {"list_refreshes", "get_refresh"}
                  /\ trace[i].res = "SUCCESS"
                  /\ \A u \in 1..i : trace[u].op # "run_refresh"
    /\ \A j \in 1..Len(trace) : \A k \in 1..Len(trace) :
          (j < k /\ trace[j].op = "run_refresh" /\ trace[k].op = "sql") =>
              \E i \in (j + 1)..(k - 1) :
                  /\ trace[i].op = "get_refresh"
                  /\ trace[i].arg = trace[j].arg
                  /\ trace[i].res = "SUCCESS"
    /\ pc \in {"q1", "q2", "q3", "q4", "done"} => run_info.state = "SUCCESS"
    /\ pc \in {"profile", "drift", "profile_col", "drift_col", "update"} =>
          run_info.state = "SUCCESS"
    /\ pc \in RefreshPcs \cup {"list", "list_assert"} => info = "MONITOR_STATUS_ACTIVE"

\* a custom-metric query was made: a read of a table after run_refresh
C11_Witness ==
    \E j \in 1..Len(trace) : \E k \in 1..Len(trace) :
        /\ j < k
        /\ trace[j].op = "run_refresh"
        /\ trace[k].op = "sql"
        /\ pc \in {"q2", "q3", "q4", "done"}

(***************************************************************************)
(* C12.  The initial wait follows the first listed run only: an empty list  *)
(* ends the run at the assertion of line 137 before any get_refresh, and    *)
(* otherwise every get_refresh of the first loop is called with the id of   *)
(* the first entry of the list, the id run_info carries.                    *)
(***************************************************************************)
C12_FollowsFirstListedRun ==
    /\ \A i \in 1..Len(trace) :
          (trace[i].op = "list_refreshes" /\ trace[i].res = "EMPTY") =>
              /\ i = Len(trace)
              /\ pc \in {"list_assert", "error"}
              /\ pc = "error" => err = "no refreshes"
    /\ err = "no refreshes" =>
          \A i \in 1..Len(trace) : trace[i].op # "get_refresh"
    /\ \A k \in 1..Len(trace) :
          (trace[k].op = "get_refresh"
              /\ \A u \in 1..k : trace[u].op # "run_refresh") =>
              (refreshes # << >> /\ trace[k].arg = refreshes[1].refresh_id)
    /\ pc \in {"r1_while", "r1_get", "r1_sleep", "r1_assert"} =>
          (refreshes # << >> /\ run_info.refresh_id = refreshes[1].refresh_id)

\* the first of two listed runs was polled, the second was not
C12_Witness ==
    /\ Len(refreshes) = 2
    /\ pc \in {"r1_sleep", "r1_while", "r1_assert"}
    /\ trace # << >>
    /\ \E k \in 1..Len(trace) :
          /\ trace[k].op = "get_refresh"
          /\ trace[k].arg = refreshes[1].refresh_id
          /\ trace[k].arg # refreshes[2].refresh_id

====
